---- MODULE Spec2Model ----
(***************************************************************************)
(* KPodHIDDriver::Start (src/KPodHIDDriver/KPodHIDDriver.cpp, lines 15-22) *)
(*                                                                         *)
(*   kern_return_t                                                         *)
(*   IMPL(KPodHIDDriver, Start)                                            *)
(*   {                                                                     *)
(*       kern_return_t ret;                                                *)
(*       ret = Start(provider, SUPERDISPATCH);                             *)
(*       os_log(OS_LOG_DEFAULT, "Hello World");                            *)
(*       return ret;                                                       *)
(*   }                                                                     *)
(*                                                                         *)
(* The model follows one driver instance through a bounded number of       *)
(* invocations of Start, statement by statement.  The superclass routine   *)
(* and the host are the environment: the host chooses the provider, the    *)
(* superclass chooses the status it returns, when (and whether) it         *)
(* returns, and what it does to the service object.                        *)
(***************************************************************************)
EXTENDS Integers, Sequences, FiniteSets, TLC

\* ------------------------------------------------------------------ bounds
MaxInvocations == 3     \* invocations of Start explored per behaviour
MaxStatus      == 2     \* kern_return_t values 0..MaxStatus; 0 is success
MaxProvider    == 2     \* provider handles 1..MaxProvider
MaxService     == 1     \* abstract states 0..MaxService of the service object

\* ------------------------------------------------- values of the program
\* kern_return_t values the superclass may return (0 = kIOReturnSuccess).
Status == 0..MaxStatus

\* IOService * provider handles the host may pass.
Providers == 1..MaxProvider

\* Everything of the service object that is not a local of Start: only the
\* superclass routine writes it.
ServiceStates == 0..MaxService

\* Second argument of the superclass call on line 19.
SUPERDISPATCH == "SUPERDISPATCH"

\* The one string literal of line 20.
HelloWorld == "Hello World"

VARIABLES
    pc,            \* "idle" | "l19" | "super" | "l20" | "l21"
    frame,         \* << >> outside Start, else <<[provider, ret]>>
    superCalls,    \* calls made to the superclass Start, in order
    superStatus,   \* statuses the superclass returned, in order
    log,           \* records written with os_log, in order
    returned,      \* statuses returned to the host, in order
    service        \* state of the service object

vars == <<pc, frame, superCalls, superStatus, log, returned, service>>

\* What the host handed to the entry point, as the body of Start can see
\* it: the one parameter it names, provider.  SUPERDISPATCH on line 19 is a
\* macro of the included DriverKit headers, not a parameter.
HostArgs(f) == [provider |-> f.provider]

\* Variant of SuperArgs: the dispatch argument is left to its default.
SuperArgsDefaultDispatch(f) == [provider |-> f.provider, dispatch |-> "NULL"]

\* Arguments of the call on line 19, from the parameter of the frame.
SuperArgs(f) == [provider |-> f.provider, dispatch |-> SUPERDISPATCH]

\* Variant of LogRecord: the text depends on the captured status.
LogRecordByStatus(f) == IF f.ret = 0 THEN HelloWorld ELSE "Start failed"

\* Record written on line 20 by a frame.
LogRecord(f) == HelloWorld

\* Variant of ReturnValue: every failure is reported as the generic 1.
ReturnValueTranslated(f) == IF f.ret = 0 THEN 0 ELSE 1

\* Variant of ReturnValue: once a Start has failed, later ones report that
\* failure again.
ReturnValueSticky(f) ==
    IF Len(returned) > 0 /\ returned[Len(returned)] # 0
    THEN returned[Len(returned)]
    ELSE f.ret

\* Value of the return statement on line 21.
ReturnValue(f) == f.ret

Init ==
    /\ pc = "idle"
    /\ frame = << >>
    /\ superCalls = << >>
    /\ superStatus = << >>
    /\ log = << >>
    /\ returned = << >>
    /\ service \in ServiceStates

\* Lines 15-18: the host enters Start with a provider; ret is declared and
\* left uninitialized, so it holds an indeterminate kern_return_t.
HostInvoke ==
    /\ pc = "idle"
    /\ Len(returned) < MaxInvocations
    /\ \E p \in Providers, g \in Status :
          frame' = << [provider |-> p, ret |-> g] >>
    /\ pc' = "l19"
    /\ UNCHANGED <<superCalls, superStatus, log, returned, service>>

\* Variant of CallSuper: the call is issued and not waited for.
CallSuperNoWait ==
    /\ pc = "l19"
    /\ superCalls' = Append(superCalls, SuperArgs(frame[1]))
    /\ pc' = "l20"
    /\ UNCHANGED <<frame, superStatus, log, returned, service>>

\* Line 19, call: Start(provider, SUPERDISPATCH) is issued.
CallSuper ==
    /\ pc = "l19"
    /\ superCalls' = Append(superCalls, SuperArgs(frame[1]))
    /\ pc' = "super"
    /\ UNCHANGED <<frame, superStatus, log, returned, service>>

\* Line 19, return and assignment: the superclass completes with some
\* status, having done whatever it does to the service object; the status
\* is stored in ret.
SuperReturn ==
    /\ pc = "super"
    /\ \E s \in Status, sv \in ServiceStates :
          /\ superStatus' = Append(superStatus, s)
          /\ frame' = << [frame[1] EXCEPT !.ret = s] >>
          /\ service' = sv
    /\ pc' = "l20"
    /\ UNCHANGED <<superCalls, log, returned>>

\* Variant of EmitLog: the record is written on success only.
EmitLogOnSuccess ==
    /\ pc = "l20"
    /\ log' = IF frame[1].ret = 0 THEN Append(log, LogRecord(frame[1])) ELSE log
    /\ pc' = "l21"
    /\ UNCHANGED <<frame, superCalls, superStatus, returned, service>>

\* Variant of EmitLog: a failure gets a second record.
EmitLogAndError ==
    /\ pc = "l20"
    /\ log' = IF frame[1].ret = 0
              THEN Append(log, LogRecord(frame[1]))
              ELSE Append(Append(log, LogRecord(frame[1])), LogRecord(frame[1]))
    /\ pc' = "l21"
    /\ UNCHANGED <<frame, superCalls, superStatus, returned, service>>

\* Variant of EmitLog: the service object is written as well.
EmitLogAndMark ==
    /\ pc = "l20"
    /\ log' = Append(log, LogRecord(frame[1]))
    /\ service' = (service + 1) % (MaxService + 1)
    /\ pc' = "l21"
    /\ UNCHANGED <<frame, superCalls, superStatus, returned>>

\* Line 20: os_log(OS_LOG_DEFAULT, "Hello World").
EmitLog ==
    /\ pc = "l20"
    /\ log' = Append(log, LogRecord(frame[1]))
    /\ pc' = "l21"
    /\ UNCHANGED <<frame, superCalls, superStatus, returned, service>>

\* Variant of Return: Start waits until the captured status is success.
ReturnOnSuccess ==
    /\ pc = "l21"
    /\ frame[1].ret = 0
    /\ returned' = Append(returned, ReturnValue(frame[1]))
    /\ frame' = << >>
    /\ pc' = "idle"
    /\ UNCHANGED <<superCalls, superStatus, log, service>>

\* Line 21: return ret; the frame is gone.
Return ==
    /\ pc = "l21"
    /\ returned' = Append(returned, ReturnValue(frame[1]))
    /\ frame' = << >>
    /\ pc' = "idle"
    /\ UNCHANGED <<superCalls, superStatus, log, service>>

Next ==
    \/ HostInvoke
    \/ CallSuper
    \/ SuperReturn
    \/ EmitLog
    \/ Return

Spec == Init /\ [][Next]_vars

\* The statements of Start itself run to completion once reached; nothing
\* obliges the host to invoke Start or the superclass to return.
FairSpec ==
    /\ Spec
    /\ WF_vars(CallSuper)
    /\ WF_vars(EmitLog)
    /\ WF_vars(Return)

TypeOK ==
    /\ pc \in {"idle", "l19", "super", "l20", "l21"}
    /\ (pc = "idle") <=> (frame = << >>)
    /\ Len(frame) <= 1
    /\ \A i \in 1..Len(frame) :
          frame[i].provider \in Providers /\ frame[i].ret \in Status
    /\ \A i \in 1..Len(superStatus) : superStatus[i] \in Status
    /\ \A i \in 1..Len(returned) : returned[i] \in Status
    /\ service \in ServiceStates

\* ------------------------------------------------------------------ claims

\* C1: every status Start has returned to the host is exactly the status
\* the superclass call of that invocation returned.
C1_PassThrough ==
    /\ Len(returned) <= Len(superStatus)
    /\ \A i \in 1..Len(returned) : returned[i] = superStatus[i]

\* Two completed invocations: a success, then the failure status 2.
C1_Witness ==
    /\ pc = "idle"
    /\ Len(returned) >= 2
    /\ returned[1] = 0
    /\ returned[2] = 2

\* C2: at every moment the log holds one record per completed invocation,
\* plus one when the running invocation is past line 20; so a completed
\* invocation has written exactly one record, whatever its status.
C2_LogOncePerInvocation ==
    Len(log) = Len(returned) + (IF pc = "l21" THEN 1 ELSE 0)

\* A failed and a succeeded invocation have both completed.
C2_Witness ==
    /\ pc = "idle"
    /\ Len(log) = 2
    /\ superStatus[1] # 0
    /\ superStatus[2] = 0

\* C3: for an invocation whose superclass call failed, the superclass was
\* called once, the failure is what Start returned, and the log holds the
\* one usual record for it and nothing more.
C3_FailurePassThrough ==
    \A i \in 1..Len(superStatus) :
        superStatus[i] # 0 =>
            /\ Len(superCalls) <= Len(superStatus) + 1
            /\ pc = "idle" => Len(superCalls) = Len(returned)
            /\ i <= Len(returned) => returned[i] = superStatus[i]
            /\ i <= Len(returned) => (i <= Len(log) /\ log[i] = "Hello World")
            /\ Len(log) <= Len(superStatus)
            /\ pc = "idle" => Len(log) = Len(returned)

\* A failed invocation has completed and a later one is running.
C3_Witness ==
    /\ Len(returned) >= 1
    /\ returned[1] # 0
    /\ pc = "l21"

\* C4 (as amended): an invocation that has passed line 19 has made exactly
\* one call to the superclass, with the provider the host passed to the
\* entry point and with the fixed SUPERDISPATCH, which line 19 supplies
\* itself; an invocation that has not reached the call has made none.
C4_OneSuperCall ==
    /\ pc \in {"idle", "l19"} => Len(superCalls) = Len(returned)
    /\ pc \in {"super", "l20", "l21"} =>
          /\ Len(superCalls) = Len(returned) + 1
          /\ superCalls[Len(superCalls)].provider = HostArgs(frame[1]).provider
          /\ superCalls[Len(superCalls)].dispatch = "SUPERDISPATCH"

\* C4 (as stated): exactly one call per invocation, and every argument of
\* that call, the dispatch token included, is one the host passed to the
\* entry point, with the same value.
C4_AsStated ==
    /\ pc \in {"idle", "l19"} => Len(superCalls) = Len(returned)
    /\ pc \in {"super", "l20", "l21"} =>
          /\ Len(superCalls) = Len(returned) + 1
          /\ \A k \in DOMAIN superCalls[Len(superCalls)] :
                /\ k \in DOMAIN HostArgs(frame[1])
                /\ superCalls[Len(superCalls)][k] = HostArgs(frame[1])[k]

\* The second invocation has issued its call, for another provider than
\* the first.
C4_Witness ==
    /\ pc = "super"
    /\ Len(superCalls) = 2
    /\ superCalls[1].provider # superCalls[2].provider

\* C5: every record in the log is the literal "Hello World".
C5_FixedLogText ==
    \A i \in 1..Len(log) : log[i] = "Hello World"

\* Records of invocations with different providers and different statuses.
C5_Witness ==
    /\ Len(log) >= 2
    /\ Len(superStatus) >= 2
    /\ superStatus[1] # superStatus[2]
    /\ superCalls[1].provider # superCalls[2].provider

\* C6: a step of Start's own statements leaves the service object as it
\* was, and either leaves the log as it was or, on line 20, appends one
\* record to it; only the superclass routine changes the service object.
C6_FrameEffect ==
    [][ pc # "super" =>
          /\ service' = service
          /\ \/ log' = log
             \/ /\ pc = "l20"
                /\ Len(log') = Len(log) + 1
                /\ SubSeq(log', 1, Len(log)) = log ]_vars

\* An invocation has completed with its one record written.
C6_Witness ==
    /\ pc = "idle"
    /\ Len(returned) = 1
    /\ Len(log) = 1
    /\ Len(superCalls) = 1

\* C7: while the superclass call is pending nothing has been logged or
\* returned for the invocation; a record is written only when the call of
\* the invocation has completed, and Start returns only when its record
\* has been written.
C7_Ordering ==
    /\ [](pc = "super" =>
            /\ Len(superStatus) = Len(superCalls) - 1
            /\ Len(log) = Len(returned)
            /\ Len(returned) = Len(superCalls) - 1)
    /\ [][ /\ Len(log') > Len(log) =>
                /\ Len(superStatus) = Len(superCalls)
                /\ Len(superCalls) = Len(returned) + 1
                /\ Len(log) = Len(returned)
           /\ Len(returned') > Len(returned) =>
                /\ Len(log) = Len(returned) + 1
                /\ Len(superStatus) = Len(returned) + 1
           /\ Len(superCalls') > Len(superCalls) =>
                /\ Len(log) = Len(returned)
                /\ Len(superStatus) = Len(returned) ]_vars

\* The superclass call has completed and the record is written, Start has
\* not returned yet.
C7_Witness ==
    /\ pc = "l21"
    /\ Len(superStatus) = 1
    /\ Len(log) = 1
    /\ Len(returned) = 0

\* C8: once the superclass call has completed, Start writes its record
\* and returns; as long as the call is pending, the invocation has written
\* no record and returned nothing.
C8_Termination ==
    /\ (pc = "l20") ~>
          (/\ pc = "idle"
           /\ Len(log) = Len(superStatus)
           /\ Len(returned) = Len(superStatus))
    /\ [](pc = "super" =>
            /\ Len(log) = Len(superStatus)
            /\ Len(returned) = Len(superStatus))

\* A failed invocation has run to its end.
C8_Witness ==
    /\ pc = "idle"
    /\ Len(returned) = 1
    /\ returned[1] # 0
    /\ Len(log) = 1

\* C9: any two completed invocations whose superclass calls returned the
\* same status returned the same status and wrote the same record,
\* wherever they stand in the sequence of invocations.
C9_NoCarriedState ==
    \A i, j \in 1..Len(returned) :
        superStatus[i] = superStatus[j] =>
            /\ returned[i] = returned[j]
            /\ log[i] = log[j]

\* A success after an earlier failure, and two invocations with the same
\* status.
C9_Witness ==
    /\ pc = "idle"
    /\ Len(returned) = 3
    /\ superStatus[1] # 0
    /\ superStatus[2] = 0
    /\ superStatus[3] = superStatus[2]
====
